---- MODULE Spec2Model ----
(***************************************************************************)
(* Token and account-security state machine of gatekeeper-api:             *)
(* AuthController (register, login, refreshToken, logout, logoutAll) over  *)
(* the Mongoose user model (lockout fields, refresh-token registry).       *)
(*                                                                         *)
(* Time is a discrete clock `now`.  Every Date.now() / new Date() read and *)
(* every JWT `iat` taken while `now` does not change sees the same value.  *)
(* Durations are scaled to a few clock units, keeping their order.         *)
(***************************************************************************)
EXTENDS Integers, Sequences, FiniteSets, TLC

(* ----------------------------- bounds --------------------------------- *)
\* The clock stops advancing at MaxClock.
MaxClock == 3
\* loginAttempts has no upper limit in the code (it grows while now = lockUntil);
\* a wrong-password login is not taken once the stored counter is MaxAttempts.
MaxAttempts == 7
\* The limiter counts rejected requests too; the clients together send no
\* more than MaxHits register and login requests within one window.
MaxHits == 6
\* The limiter is followed over MaxWindows of its windows.
MaxWindows == 2
\* Token exchanges between two accounts are followed up to this clock value.
MaxExchangeClock == 2
\* Reconnections the disconnect handler schedules in one run.
MaxReconnections == 2

(* ------------------------ program constants --------------------------- *)
\* `this.loginAttempts + 1 >= 5`
LockThreshold == 5
\* `Date.now() + 2 * 60 * 60 * 1000`, scaled: the lock lasts 2 clock units.
LockDuration == 2
\* `this.refreshTokens.length > 5` / `slice(-5)`
MaxRefreshTokens == 5
\* `expiresAt.setDate(expiresAt.getDate() + 7)`, scaled: 3 clock units.
RegistryTTL == 3
\* JWT_REFRESH_EXPIRES_IN default "7d", scaled like RegistryTTL.
JwtRefreshTTL == 3
\* JWT_EXPIRES_IN default "15m", scaled: 1 clock unit.
JwtAccessTTL == 1

JWT_SECRET == "dev-secret-change-in-production-2024"
JWT_REFRESH_SECRET == "dev-refresh-secret-change-in-production-2024"

\* An absent Date field (lockUntil, lastLogin).
NoDate == -1
\* An absent cookie / token.
NoToken == [typ |-> "none"]
\* `null` from findOne / findById.
NoUser == [id |-> 0]

(* ------------------------------ inputs -------------------------------- *)
\* Request e-mails: one address in two spellings, and one that never registers.
Emails == {"alice@example.com", "Alice@Example.com", "bob@example.com"}
RegEmails == {"alice@example.com", "Alice@Example.com"}
Passwords == {"Secur3!pass", "wrong-pass"}
RegPasswords == {"Secur3!pass"}
FullNames == {"Alice"}

\* The spelling kept as typed.
toLowerCase_Kept(e) == e

\* String.prototype.toLowerCase on the request e-mails.
toLowerCase(e) == IF e = "Alice@Example.com" THEN "alice@example.com" ELSE e

VARIABLES
    users,      \* the users collection: sequence of documents, _id = position
    now,        \* the clock
    req,        \* the request handled last: operation, inputs, collection before
    resp,       \* the response to it: status, message, cookie, access token
    issued,     \* refresh tokens handed to clients so far (their cookies)
    hist,       \* history of the run, read by the properties only
    procs,      \* login requests running concurrently: position, loaded document
    config,     \* the configuration object the process started with
    limiter,    \* the store of the authentication rate limiter
    db          \* the database connection: module state of connection.js

vars == <<users, now, req, resp, issued, hist, procs, config, limiter, db>>

(* --------------------------- configuration ---------------------------- *)
\* An environment variable that is not set (or set to the empty string).
Unset == ""
\* JWT_REFRESH_EXPIRES_IN not set, and set to a duration shorter than the
\* default (say "1d"), scaled like RegistryTTL.
UnsetTTL == 0
ShortRefreshTTL == 2
\* Secrets an operator may set: two of 32 characters or more, one shorter.
SecretA == "0123456789abcdef0123456789abcdef-A"
SecretB == "0123456789abcdef0123456789abcdef-B"
ShortSecret == "too-short"

\* process.env as far as the token settings read it.
Envs ==
    [NODE_ENV : {Unset, "PRODUCTION"},
     JWT_SECRET : {Unset, SecretA, ShortSecret},
     JWT_REFRESH_SECRET : {Unset, SecretA, SecretB},
     JWT_REFRESH_EXPIRES_IN : {UnsetTTL, ShortRefreshTTL}]
NoEnv ==
    [NODE_ENV |-> Unset, JWT_SECRET |-> Unset, JWT_REFRESH_SECRET |-> Unset,
     JWT_REFRESH_EXPIRES_IN |-> UnsetTTL]

\* validateRequiredEnvVars: in production JWT_SECRET and JWT_REFRESH_SECRET
\* must be set, else the process throws at start; otherwise it only warns.
validateRequiredEnvVars(env) ==
    env.NODE_ENV = "PRODUCTION"
        => env.JWT_SECRET # Unset /\ env.JWT_REFRESH_SECRET # Unset

\* The enhancedConfig object: each setting from the environment, or its
\* default.
enhancedConfig(env) ==
    [NODE_ENV |-> IF env.NODE_ENV = Unset THEN "DEVELOPMENT" ELSE env.NODE_ENV,
     JWT_SECRET |-> IF env.JWT_SECRET = Unset THEN JWT_SECRET
                    ELSE env.JWT_SECRET,
     JWT_EXPIRES_IN |-> JwtAccessTTL,
     JWT_REFRESH_SECRET |-> IF env.JWT_REFRESH_SECRET = Unset
                            THEN JWT_REFRESH_SECRET
                            ELSE env.JWT_REFRESH_SECRET,
     JWT_REFRESH_EXPIRES_IN |-> IF env.JWT_REFRESH_EXPIRES_IN = UnsetTTL
                                THEN JwtRefreshTTL
                                ELSE env.JWT_REFRESH_EXPIRES_IN]

\* validateConfiguration: in production JWT_SECRET must have 32 characters
\* or more, else the process throws at start.
validateConfiguration(cfg) ==
    cfg.NODE_ENV = "PRODUCTION" => Len(cfg.JWT_SECRET) >= 32

\* enhancedConfig with no JWT variable set in the environment: the defaults.
DefaultConfig == enhancedConfig(NoEnv)

(* ---------------------------- rate limiter ---------------------------- *)
\* Client addresses (req.ip), the keys of the limiter's store.
ClientIps == {"10.0.0.1", "10.0.0.2"}
\* authLimiter `max: 5`
AuthLimiterMax == 5
\* authLimiter `windowMs: 15 * 60 * 1000`, scaled: 1 clock unit.
AuthLimiterWindow == 1
\* The store of a limiter that has counted nothing: per key the hits of
\* its window and the time the window ends; key is the one counted last.
EmptyStore ==
    [clients |-> [ip \in ClientIps |-> [totalHits |-> 0, resetTime |-> 0]],
     key |-> "none"]

\* MemoryStore.increment: a client whose window has ended starts a new one,
\* then the hit is counted.
increment(client, t) ==
    IF client.resetTime <= t
    THEN [totalHits |-> 1, resetTime |-> t + AuthLimiterWindow]
    ELSE [client EXCEPT !.totalHits = @ + 1]

\* The limiter letting one request more through.
limitReached_OneMore(totalHits) == totalHits > AuthLimiterMax + 1

\* `totalHits > limit`: the request is answered 429 by the limiter.
limitReached(totalHits) == totalHits > AuthLimiterMax

(* -------------------------- password hasher --------------------------- *)
\* The password field holds a text and the number of times bcrypt.hash has
\* been applied to it: a value assigned from a request is the plaintext.
Plain(p) == [text |-> p, rounds |-> 0]

\* bcrypt.hash(this.password, salt): a digest of the field's current value,
\* distinct from it.
hashPassword(pw) == [pw EXCEPT !.rounds = @ + 1]

\* The hook hashing at every save.
preSave_Always(doc, isModifiedPassword) ==
    [doc EXCEPT !.password = hashPassword(@)]

\* pre('save'): if (!this.isModified("password")) return next();
\* this.password = await bcrypt.hash(this.password, salt)
preSave(doc, isModifiedPassword) ==
    IF isModifiedPassword
    THEN [doc EXCEPT !.password = hashPassword(@)]
    ELSE doc

\* comparePassword: bcrypt.compare(candidate, this.password)
comparePassword(candidate, stored) == stored = hashPassword(Plain(candidate))

(* --------------------------- token issuer ----------------------------- *)
\* jwt.sign({id, email, displayName, role}, JWT_SECRET, {expiresIn}):
\* the string is a function of payload, iat, exp and key.
generateAccessToken(u, t) ==
    [typ |-> "access", id |-> u.id, email |-> u.email,
     displayName |-> u.fullName, role |-> u.role,
     iat |-> t, exp |-> t + config.JWT_EXPIRES_IN,
     key |-> config.JWT_SECRET]

\* jwt.sign({id, tokenType: "refresh"}, JWT_REFRESH_SECRET, {expiresIn})
generateRefreshToken(u, t) ==
    [typ |-> "refresh", id |-> u.id,
     iat |-> t, exp |-> t + config.JWT_REFRESH_EXPIRES_IN,
     key |-> config.JWT_REFRESH_SECRET]

\* The payload jwt.verify returns: the claims signed, with iat and exp.
decoded(tok) ==
    IF tok.typ = "access"
    THEN [id |-> tok.id, email |-> tok.email, displayName |-> tok.displayName,
          role |-> tok.role, iat |-> tok.iat, exp |-> tok.exp]
    ELSE [id |-> tok.id, tokenType |-> "refresh", iat |-> tok.iat,
          exp |-> tok.exp]
\* The error jwt.verify throws.
JwtError == [name |-> "JsonWebTokenError"]

\* jwt.verify accepting any signature.
jwtVerify_Unsigned(tok, secret, t) ==
    IF tok # NoToken /\ t < tok.exp THEN decoded(tok) ELSE JwtError

\* jwt.verify(token, secret): the payload, or an error when the signature
\* was not made with the secret or the clock has reached exp.
jwtVerify(tok, secret, t) ==
    IF tok # NoToken /\ tok.key = secret /\ t < tok.exp
    THEN decoded(tok) ELSE JwtError

\* jwt.verify without the comparison of exp with the clock.
jwtVerifyRefresh_NoExpiry(tok, t) ==
    /\ tok # NoToken
    /\ tok.key = config.JWT_REFRESH_SECRET

\* jwt.verify(token, JWT_REFRESH_SECRET): throws on a bad signature or shape
\* and once the clock has reached exp.
jwtVerifyRefresh(tok, t) ==
    jwtVerify(tok, config.JWT_REFRESH_SECRET, t) # JwtError

\* A token signed with a key the service does not hold.
ForgedToken ==
    [typ |-> "refresh", id |-> 1, iat |-> 0, exp |-> MaxClock + 10,
     key |-> "attacker-key"]

(* --------------------------- lockout policy --------------------------- *)
\* isLocked never reporting a lock.
isLocked_Never(u, t) == FALSE
\* isLocked with the comparison turned round.
isLocked_Reversed(u, t) == u.lockUntil # NoDate /\ u.lockUntil < t
\* isLocked without the comparison with the clock.
isLocked_NoExpiry(u, t) == u.lockUntil # NoDate

\* isLocked taking the lock as over one clock unit early.
isLocked_Early(u, t) == u.lockUntil # NoDate /\ u.lockUntil > t + 1

\* virtual isLocked: !!(this.lockUntil && this.lockUntil > Date.now())
isLocked(u, t) == u.lockUntil # NoDate /\ u.lockUntil > t

\* incLoginAttempts locking one failure late (`this.loginAttempts >= 5`).
incLoginAttempts_OneLate(doc, cur, t) ==
    IF doc.lockUntil # NoDate /\ doc.lockUntil < t
    THEN [cur EXCEPT !.lockUntil = NoDate, !.loginAttempts = 1]
    ELSE IF doc.loginAttempts >= LockThreshold /\ doc.lockUntil = NoDate
         THEN [cur EXCEPT !.loginAttempts = @ + 1,
                          !.lockUntil = t + LockDuration]
         ELSE [cur EXCEPT !.loginAttempts = @ + 1]

\* incLoginAttempts writing the time of the attempt to lastLogin as well.
incLoginAttempts_Stamped(doc, cur, t) ==
    [cur EXCEPT !.loginAttempts = @ + 1, !.lastLogin = t]

\* incLoginAttempts: the decision reads the loaded document `doc`; updateOne
\* applies $set/$unset/$inc to the stored document `cur`.
incLoginAttempts(doc, cur, t) ==
    IF doc.lockUntil # NoDate /\ doc.lockUntil < t
    THEN [cur EXCEPT !.lockUntil = NoDate, !.loginAttempts = 1]
    ELSE IF doc.loginAttempts + 1 >= LockThreshold /\ doc.lockUntil = NoDate
         THEN [cur EXCEPT !.loginAttempts = @ + 1,
                          !.lockUntil = t + LockDuration]
         ELSE [cur EXCEPT !.loginAttempts = @ + 1]

\* resetLoginAttempts unsetting loginAttempts only.
resetLoginAttempts_KeepLock(cur) == [cur EXCEPT !.loginAttempts = 0]

\* resetLoginAttempts: updateOne({$unset: {loginAttempts: 1, lockUntil: 1}});
\* an unset loginAttempts reads back as the schema default 0.
resetLoginAttempts(cur) ==
    [cur EXCEPT !.loginAttempts = 0, !.lockUntil = NoDate]

\* updateLastLogin: this.lastLogin = new Date(); save()
updateLastLogin(cur, t) == [cur EXCEPT !.lastLogin = t]

(* ----------------------- refresh token registry ----------------------- *)
\* cleanupExpiredTokens: filter(token => token.expiresAt > now)
\* cleanupExpiredTokens keeping an entry at the instant it expires.
cleanupExpiredTokens_AtExpiry(toks, t) ==
    SelectSeq(toks, LAMBDA e : e.expiresAt >= t)

cleanupExpiredTokens(toks, t) == SelectSeq(toks, LAMBDA e : e.expiresAt > t)

\* addRefreshToken keeping the first 5 entries (`slice(0, 5)`).
addRefreshToken_KeepFirst(toks, tok, t) ==
    LET pushed == Append(toks, [token |-> tok, createdAt |-> t,
                                expiresAt |-> t + RegistryTTL])
    IN  IF Len(pushed) > MaxRefreshTokens
        THEN SubSeq(pushed, 1, MaxRefreshTokens)
        ELSE pushed

\* addRefreshToken: push {token, expiresAt: now + 7 days}; keep the last 5.
addRefreshToken(toks, tok, t) ==
    LET pushed == Append(toks, [token |-> tok, createdAt |-> t,
                                expiresAt |-> t + RegistryTTL])
    IN  IF Len(pushed) > MaxRefreshTokens
        THEN SubSeq(pushed, Len(pushed) - MaxRefreshTokens + 1, Len(pushed))
        ELSE pushed

\* removeRefreshToken leaving the registry as it is.
removeRefreshToken_KeepAll(toks, tok) == toks

\* removeRefreshToken: filter(t => t.token !== token)
removeRefreshToken(toks, tok) == SelectSeq(toks, LAMBDA e : e.token # tok)

\* clearAllRefreshTokens: this.refreshTokens = []
clearAllRefreshTokens(toks) == << >>

\* The membership test passing for any non-empty registry.
tokenExists_AnyEntry(toks, tok) == Len(toks) > 0

\* refreshTokens.some(t => t.token === refreshToken)
tokenExists(toks, tok) == \E i \in 1..Len(toks) : toks[i].token = tok

(* --------------------------- credential store ------------------------- *)
UserIds == 1..Len(users)

\* User.findOne({email}) / User.findByEmail(email): the document or null.
findOne(email) ==
    IF \E i \in UserIds : users[i].email = email
    THEN users[CHOOSE i \in UserIds : users[i].email = email]
    ELSE NoUser

findByEmail(email) == findOne(toLowerCase(email))

\* User.findById(id)
findById(id) == IF id \in UserIds THEN users[id] ELSE NoUser

\* A relaxed constructor: the new document starts with one counted attempt.
newUser_Attempted(fullName, email, password) ==
    [id |-> Len(users) + 1, fullName |-> fullName, email |-> email,
     password |-> Plain(password), role |-> "user", isActive |-> TRUE,
     loginAttempts |-> 1, lockUntil |-> NoDate, refreshTokens |-> << >>,
     lastLogin |-> NoDate]

\* new User({fullName, email, password}) with the schema defaults.
newUser(fullName, email, password) ==
    [id |-> Len(users) + 1, fullName |-> fullName, email |-> email,
     password |-> Plain(password), role |-> "user", isActive |-> TRUE,
     loginAttempts |-> 0, lockUntil |-> NoDate, refreshTokens |-> << >>,
     lastLogin |-> NoDate]

(* ------------------------ requests and responses -------------------- *)
\* res.status(..).json({message, data: {accessToken}}) and res.cookie(..).
Response(status, message, cookie, accessToken) ==
    [status |-> status, message |-> message, cookie |-> cookie,
     accessToken |-> accessToken, user |-> NoUser, errors |-> << >>,
     httpOnly |-> cookie # NoToken]

\* req.body / req.cookies / req.user of the request being handled, the clock
\* and the collection as the handler found them.
Request(op, email, password, token, uid) ==
    [op |-> op, at |-> now, before |-> users, email |-> email,
     password |-> password, token |-> token, uid |-> uid]

(* ------------------------ database connection ------------------------- *)
\* databaseConfig.maxRetryAttempts || 5: 3 in the development configuration.
MAX_RETRY_ATTEMPTS == 3
\* process.exit has not been called.
NoExit == -1
\* mongoose.connection.readyState
Disconnected == 0
ReadyConnected == 1
Connecting == 2
\* Calls of connectDB: 0 is the call at start-up, the others are the
\* setTimeout callbacks of handleReconnection.
Chains == 0..MaxReconnections

\* `let isConnected = false; let connectionsAttempt = 0;` before any call.
\* uri: getMongoUri finds a valid URI; monitoring: setUpConenectionMonitoring
\* has registered the handlers; failed: connection attempts that failed
\* since a connection was last established; blind: an attempt was made
\* while connected.
NotStarted(uri, monitoring) ==
    [isConnected |-> FALSE, connectionsAttempt |-> 0,
     readyState |-> Disconnected, hasOpened |-> FALSE,
     uri |-> uri, monitoring |-> monitoring, exitCode |-> NoExit,
     chains |-> [c \in Chains |-> IF c = 0 THEN "pending" ELSE "idle"],
     failed |-> 0, blind |-> FALSE]

\* The connection while requests are served.
Connected ==
    [NotStarted(TRUE, TRUE) EXCEPT !.isConnected = TRUE,
        !.readyState = ReadyConnected, !.hasOpened = TRUE,
        !.chains = [c \in Chains |-> IF c = 0 THEN "returned" ELSE "idle"]]

\* A setTimeout callback that has not been scheduled yet.
FreeChain(d) == CHOOSE c \in Chains \ {0} : d.chains[c] = "idle"
HasFreeChain(d) == \E c \in Chains \ {0} : d.chains[c] = "idle"

\* handleReconnection: exit(1) when connectionsAttempt >= MAX_RETRY_ATTEMPTS,
\* else connectionsAttempt++ and setTimeout(connectDB, delay).
handleReconnection(d) ==
    IF d.connectionsAttempt >= MAX_RETRY_ATTEMPTS
    THEN [d EXCEPT !.exitCode = 1]
    ELSE [d EXCEPT !.connectionsAttempt = @ + 1,
                   !.chains[FreeChain(d)] = "pending"]

\* if (isConnected || mongoose.connection.readyState === 1)
alreadyConnected(d) == d.isConnected \/ d.readyState = ReadyConnected

\* connection.on("connected"): isConnected = true; connectionsAttempt = 0.
onConnected(d) ==
    IF d.monitoring
    THEN [d EXCEPT !.isConnected = TRUE, !.connectionsAttempt = 0]
    ELSE d

\* connection.on("disconnected"): isConnected = false; handleReconnection().
onDisconnected(d) ==
    IF d.monitoring
    THEN handleReconnection([d EXCEPT !.isConnected = FALSE])
    ELSE d

\* connection.on("error"): isConnected = false.
onError(d) ==
    IF d.monitoring THEN [d EXCEPT !.isConnected = FALSE] ELSE d

\* The catch block of connectDB in call c: connectionsAttempt++, exit(1) at
\* MAX_RETRY_ATTEMPTS, else wait for the delay and call connectDB again.
connectFailed(d, c) ==
    LET n == d.connectionsAttempt + 1
    IN  IF d.exitCode # NoExit THEN d
        ELSE [d EXCEPT !.connectionsAttempt = n, !.failed = @ + 1,
                 !.exitCode = IF n >= MAX_RETRY_ATTEMPTS THEN 1 ELSE @,
                 !.chains[c] = IF n >= MAX_RETRY_ATTEMPTS THEN "exited"
                               ELSE "delay"]

NoHistory ==
    [rotated |-> {}, cleared |-> {}, loggedOut |-> {}, streak |-> 0,
     failAt |-> NoDate, start |-> NoUser]

\* Requests that overlap in time; each is one run of a handler.
Procs == {"p1", "p2"}
Idle == [pc |-> "idle", doc |-> NoUser, t0 |-> NoDate, t1 |-> NoDate,
         status |-> 0]

Init ==
    /\ config = DefaultConfig
    /\ limiter = EmptyStore
    /\ db = Connected
    /\ users = << >>
    /\ now = 0
    /\ req = [op |-> "none", at |-> 0, before |-> << >>, email |-> "",
              password |-> "", token |-> NoToken, uid |-> 0]
    /\ resp = Response(0, "", NoToken, NoToken)
    /\ issued = {}
    /\ hist = NoHistory
    /\ procs = [p \in Procs |-> Idle]

(* --------------------------- response bodies -------------------------- *)
\* data.user of the register response.
registerBody(user) ==
    [id |-> user.id, fullName |-> user.fullName, email |-> user.email,
     role |-> user.role]
\* data.user of the login response.
loginBody(user) ==
    [id |-> user.id, fullName |-> user.fullName, email |-> user.email,
     role |-> user.role, lastLogin |-> user.lastLogin]
\* data.user of the getProfile response.
profileBody(user) ==
    [id |-> user.id, fullName |-> user.fullName, email |-> user.email,
     role |-> user.role, isActive |-> user.isActive,
     lastLogin |-> user.lastLogin]

(* ----------------------------- validation ----------------------------- *)
\* A password a registration may carry that misses the requirements.
WeakPassword == "wrong-pass"
\* "Minimum 8 characters with uppercase, lowercase, number, and special
\* character", on the request passwords.
meetsRequirements(password) == password = "Secur3!pass"
\* validationResult(req).array() after validateRegistration: one entry per
\* failed field, each carrying the field's path and the value received.
validationErrors(password) ==
    IF meetsRequirements(password) THEN << >>
    ELSE << [path |-> "password", value |-> password] >>

(* ------------------------------- register ----------------------------- *)
register(fullName, email, password) ==
    LET errors == validationErrors(password)
        existingUser == findOne(toLowerCase(email))
        \* new User(..); await user.save()
        user == preSave(newUser(fullName, toLowerCase(email), password), TRUE)
        accessToken == generateAccessToken(user, now)
        refreshToken == generateRefreshToken(user, now)
    IN  /\ req' = Request("register", email, password, NoToken, 0)
        /\ now' = now
        /\ IF errors # << >>
           THEN /\ resp' = [Response(400, "Validation failed", NoToken, NoToken)
                               EXCEPT !.errors = errors]
                /\ UNCHANGED <<users, issued>>
           ELSE IF existingUser # NoUser
           THEN /\ resp' = Response(409, "User already exists with this email",
                                    NoToken, NoToken)
                /\ UNCHANGED <<users, issued>>
           ELSE /\ users' = Append(users,
                      preSave([user EXCEPT !.refreshTokens =
                          addRefreshToken(user.refreshTokens, refreshToken, now)],
                          FALSE))
                /\ issued' = issued \cup {refreshToken}
                /\ resp' = [Response(201, "User registered successfully",
                                     refreshToken, accessToken)
                               EXCEPT !.user = registerBody(user)]

(* -------------------------------- login ------------------------------- *)
\* if (!user) return res.status(401).json({message: "Invalid credentials"})
UnknownUser == Response(401, "Invalid credentials", NoToken, NoToken)

\* The wrong-password rejection with a message of its own.
WrongPassword_Named == Response(401, "Incorrect password", NoToken, NoToken)

\* if (!isPasswordValid) {...; return res.status(401).json({message:
\* "Invalid credentials"})}
WrongPassword == Response(401, "Invalid credentials", NoToken, NoToken)

login(email, password) ==
    LET user == findByEmail(email)
        accessToken == generateAccessToken(user, now)
        refreshToken == generateRefreshToken(user, now)
        \* resetLoginAttempts (updateOne), then three saves of the document
        reset == resetLoginAttempts(users[user.id])
        seen == preSave(updateLastLogin(reset, now), FALSE)
        cleaned == preSave([seen EXCEPT !.refreshTokens =
                       cleanupExpiredTokens(user.refreshTokens, now)], FALSE)
        added == preSave([cleaned EXCEPT !.refreshTokens =
                     addRefreshToken(cleaned.refreshTokens, refreshToken, now)],
                     FALSE)
    IN  /\ req' = Request("login", email, password, NoToken, 0)
        /\ now' = now
        /\ IF user = NoUser
           THEN /\ resp' = UnknownUser
                /\ UNCHANGED <<users, issued>>
           ELSE IF isLocked(user, now)
           THEN /\ resp' = Response(423,
                      "Account temporarily locked due to too many failed login attempts",
                      NoToken, NoToken)
                /\ UNCHANGED <<users, issued>>
           ELSE IF ~user.isActive
           THEN /\ resp' = Response(403, "Account is deactivated", NoToken, NoToken)
                /\ UNCHANGED <<users, issued>>
           ELSE IF ~comparePassword(password, user.password)
           THEN /\ user.loginAttempts < MaxAttempts
                /\ users' = [users EXCEPT ![user.id] =
                                incLoginAttempts(user, users[user.id], now)]
                /\ resp' = WrongPassword
                /\ UNCHANGED issued
           ELSE /\ users' = [users EXCEPT ![user.id] = added]
                /\ issued' = issued \cup {refreshToken}
                /\ resp' = [Response(200, "Login successful", refreshToken,
                                     accessToken)
                               EXCEPT !.user = loginBody(added)]

(* ---------------------------- refreshToken ---------------------------- *)
refreshToken(tok) ==
    LET verified == jwtVerifyRefresh(tok, now)
        user == IF verified THEN findById(tok.id) ELSE NoUser
        newAccessToken == generateAccessToken(user, now)
        newRefreshToken == generateRefreshToken(user, now)
        \* removeRefreshToken and addRefreshToken: two saves of the document
        removed == preSave([users[user.id] EXCEPT !.refreshTokens =
                       removeRefreshToken(user.refreshTokens, tok)], FALSE)
        added == preSave([removed EXCEPT !.refreshTokens =
                     addRefreshToken(removed.refreshTokens, newRefreshToken, now)],
                     FALSE)
    IN  /\ req' = Request("refresh", "", "", tok, 0)
        /\ now' = now
        /\ IF tok = NoToken
           THEN /\ resp' = Response(401, "Refresh token not provided",
                                    NoToken, NoToken)
                /\ UNCHANGED <<users, issued>>
           ELSE IF ~verified
           THEN /\ resp' = Response(401, "Invalid or expired refresh token",
                                    NoToken, NoToken)
                /\ UNCHANGED <<users, issued>>
           ELSE IF user = NoUser
           THEN /\ resp' = Response(401, "User not found", NoToken, NoToken)
                /\ UNCHANGED <<users, issued>>
           ELSE IF ~tokenExists(user.refreshTokens, tok)
           THEN /\ resp' = Response(401, "Invalid refresh token",
                                    NoToken, NoToken)
                /\ UNCHANGED <<users, issued>>
           ELSE /\ users' = [users EXCEPT ![user.id] = added]
                /\ issued' = issued \cup {newRefreshToken}
                /\ resp' = Response(200, "Token refreshed successfully",
                                    newRefreshToken, newAccessToken)

(* -------------------------------- logout ------------------------------ *)
\* logout finding the user by the id claim of the cookie instead of req.user.
logout_ByTokenOwner(tok, uid) ==
    LET user == IF tok # NoToken THEN findById(tok.id) ELSE NoUser
    IN  /\ req' = Request("logout", "", "", tok, uid)
        /\ now' = now
        /\ IF user # NoUser
           THEN users' = [users EXCEPT ![user.id] =
                             preSave([@ EXCEPT !.refreshTokens =
                                 removeRefreshToken(user.refreshTokens, tok)],
                                 FALSE)]
           ELSE UNCHANGED users
        /\ resp' = Response(200, "Logout successful", NoToken, NoToken)
        /\ UNCHANGED issued

\* req.cookies.refreshToken = tok, req.user?.id = uid (0: no req.user).
logout(tok, uid) ==
    LET user == IF tok # NoToken /\ uid # 0 THEN findById(uid) ELSE NoUser
    IN  /\ req' = Request("logout", "", "", tok, uid)
        /\ now' = now
        /\ IF user # NoUser
           THEN users' = [users EXCEPT ![user.id] =
                             preSave([@ EXCEPT !.refreshTokens =
                                 removeRefreshToken(user.refreshTokens, tok)],
                                 FALSE)]
           ELSE UNCHANGED users
        /\ resp' = Response(200, "Logout successful", NoToken, NoToken)
        /\ UNCHANGED issued

(* ------------------------------- logoutAll ---------------------------- *)
\* req.user.id = uid, set by the authentication middleware of the route.
logoutAll(uid) ==
    LET user == findById(uid)
    IN  /\ req' = Request("logoutAll", "", "", NoToken, uid)
        /\ now' = now
        /\ IF user # NoUser
           THEN users' = [users EXCEPT ![user.id] =
                             preSave([@ EXCEPT !.refreshTokens =
                                 clearAllRefreshTokens(user.refreshTokens)],
                                 FALSE)]
           ELSE UNCHANGED users
        /\ resp' = Response(200, "Logged out from all devices successfully",
                            NoToken, NoToken)
        /\ UNCHANGED issued

(* ------------------------------ getProfile ---------------------------- *)
\* req.user.id = uid, set by the authentication middleware of the route.
getProfile(uid) ==
    LET user == findById(uid)
    IN  /\ req' = Request("getProfile", "", "", NoToken, uid)
        /\ now' = now
        /\ resp' = IF user = NoUser
                   THEN Response(404, "User not found", NoToken, NoToken)
                   ELSE [Response(200, "Profile retrieved successfully",
                                  NoToken, NoToken)
                            EXCEPT !.user = profileBody(user)]
        /\ UNCHANGED <<users, issued>>

(* ---------------------------- environment ----------------------------- *)
\* The clock advances.
Tick ==
    /\ now < MaxClock
    /\ now' = now + 1
    /\ UNCHANGED <<users, req, resp, issued, hist, procs, config, limiter, db>>

\* An administrator outside this service flips isActive of a stored user.
SetActive ==
    \E uid \in UserIds :
        /\ users' = [users EXCEPT ![uid].isActive = ~@]
        /\ UNCHANGED <<now, req, resp, issued, hist, procs, config, limiter, db>>

\* Ids a request can carry in req.user: none (0), a stored user, a missing one.
ReqUserIds == 0..(Len(users) + 1)
\* Cookies a request can carry: none, any token handed out, a forged one.
ReqTokens == issued \cup {NoToken, ForgedToken}

(* ------------------------------ requests ------------------------------ *)
RegisterReq ==
    \E f \in FullNames, e \in RegEmails, p \in RegPasswords : register(f, e, p)
LoginReq == \E e \in Emails, p \in Passwords : login(e, p)
LoginOkReq == \E e \in Emails, p \in RegPasswords : login(e, p)
RefreshReq == \E tok \in ReqTokens : refreshToken(tok)
LogoutReq == \E tok \in ReqTokens, uid \in ReqUserIds : logout(tok, uid)
LogoutAllReq == \E uid \in ReqUserIds \ {0} : logoutAll(uid)
RegisterAnyReq ==
    \E f \in FullNames, e \in RegEmails, p \in RegPasswords \cup {WeakPassword} :
        register(f, e, p)
GetProfileReq == \E uid \in ReqUserIds \ {0} : getProfile(uid)

(* ------------------- the service, one request at a time --------------- *)
Register == RegisterReq /\ UNCHANGED <<hist, procs, config, limiter, db>>
Login == LoginReq /\ UNCHANGED <<hist, procs, config, limiter, db>>
LoginOk == LoginOkReq /\ UNCHANGED <<hist, procs, config, limiter, db>>
RefreshToken == RefreshReq /\ UNCHANGED <<hist, procs, config, limiter, db>>
Logout == LogoutReq /\ UNCHANGED <<hist, procs, config, limiter, db>>
LogoutAll == LogoutAllReq /\ UNCHANGED <<hist, procs, config, limiter, db>>
RegisterAny == RegisterAnyReq /\ UNCHANGED <<hist, procs, config, limiter, db>>
GetProfile == GetProfileReq /\ UNCHANGED <<hist, procs, config, limiter, db>>

Next ==
    \/ Register
    \/ Login
    \/ RefreshToken
    \/ Logout
    \/ LogoutAll
    \/ SetActive
    \/ Tick

Spec == Init /\ [][Next]_vars

(* --------- sessions: register, successful login, refresh, logout ------- *)
NextSession ==
    \/ Register
    \/ LoginOk
    \/ RefreshToken
    \/ Logout
    \/ LogoutAll
    \/ Tick

SpecSession == Init /\ [][NextSession]_vars

(* ---- a burst: every kind of request, all within one clock instant ----- *)
NextBurst ==
    \/ Register
    \/ Login
    \/ RefreshToken
    \/ Logout
    \/ LogoutAll
    \/ SetActive

SpecBurst == Init /\ [][NextBurst]_vars

(* ---- every route of the controller, registrations of any password ---- *)
NextBodies ==
    \/ RegisterAny
    \/ Login
    \/ RefreshToken
    \/ Logout
    \/ LogoutAll
    \/ GetProfile

SpecBodies == Init /\ [][NextBodies]_vars

(* ------------- sessions of a process started with any environment ----- *)
\* The process starts only if both validations pass.
InitConfigured ==
    /\ \E env \in Envs :
          /\ validateRequiredEnvVars(env)
          /\ validateConfiguration(enhancedConfig(env))
          /\ config = enhancedConfig(env)
    /\ limiter = EmptyStore
    /\ db = Connected
    /\ users = << >>
    /\ now = 0
    /\ req = [op |-> "none", at |-> 0, before |-> << >>, email |-> "",
              password |-> "", token |-> NoToken, uid |-> 0]
    /\ resp = Response(0, "", NoToken, NoToken)
    /\ issued = {}
    /\ hist = NoHistory
    /\ procs = [p \in Procs |-> Idle]

\* A refresh whose cookie is a refresh token handed out, the access token
\* of the last response, or absent.
RefreshAny ==
    /\ \E tok \in issued \cup {NoToken, resp.accessToken} : refreshToken(tok)
    /\ UNCHANGED <<hist, procs, config, limiter, db>>

NextConfigured ==
    \/ Register
    \/ LoginOk
    \/ RefreshAny
    \/ Tick

SpecConfigured == InitConfigured /\ [][NextConfigured]_vars

\* The e-mail of the logins of the first person.
LimitedEmails == {"alice@example.com"}

(* --------------------- two accounts, one request at a time ------------ *)
\* A second person registers.
OtherEmail == "bob@example.com"
RegisterOther ==
    /\ \E p \in RegPasswords : register("Bob", OtherEmail, p)
    /\ UNCHANGED <<hist, procs, config, limiter, db>>

\* Logins of the first person, with the right and a wrong password.
LoginFirst ==
    /\ \E e \in LimitedEmails, p \in Passwords : login(e, p)
    /\ UNCHANGED <<hist, procs, config, limiter, db>>

\* Logins while the clock advances.
NextFrames ==
    \/ Register
    \/ RegisterOther
    \/ LoginFirst
    \/ Tick

SpecFrames == Init /\ [][NextFrames]_vars

\* Logins and refreshes while the clock advances up to MaxExchangeClock; the
\* second person registers on the empty collection.
NextExchange ==
    \/ Register
    \/ (users = << >> /\ RegisterOther)
    \/ LoginFirst
    \/ RefreshToken
    \/ (Tick /\ now < MaxExchangeClock)

SpecExchange == Init /\ [][NextExchange]_vars

\* Logins, refreshes and logouts within one clock instant.
NextSignOut ==
    \/ Register
    \/ RegisterOther
    \/ LoginFirst
    \/ RefreshToken
    \/ Logout

SpecSignOut == Init /\ [][NextSignOut]_vars

(* ------------------ register and login behind authLimiter ------------- *)
\* The limiter's own response.
TooManyRequests ==
    Response(429, "Too many authentication attempts, please try again later.",
             NoToken, NoToken)

\* The hits counted for ip in a window that has not ended.
HitsInWindow(ip) ==
    IF limiter.clients[ip].resetTime > now
    THEN limiter.clients[ip].totalHits ELSE 0
RECURSIVE HitsOf(_)
HitsOf(ips) ==
    IF ips = {} THEN 0
    ELSE LET ip == CHOOSE x \in ips : TRUE
         IN  HitsInWindow(ip) + HitsOf(ips \ {ip})

\* authLimiter for a request from ip: the hit is counted under req.ip.
Counted(ip) ==
    /\ HitsOf(ClientIps) < MaxHits
    /\ limiter' = [clients |-> [limiter.clients EXCEPT
                                  ![ip] = increment(@, now)],
                   key |-> ip]

\* Over the limit: the limiter answers and next() is never called.
Rejected(ip) == limitReached(increment(limiter.clients[ip], now).totalHits)

\* POST /register: authLimiter, then the controller.
LimitedRegister(ip) ==
    /\ Counted(ip)
    /\ IF Rejected(ip)
       THEN /\ \E e \in RegEmails, p \in RegPasswords :
                  req' = Request("register", e, p, NoToken, 0)
            /\ resp' = TooManyRequests
            /\ UNCHANGED <<users, now, issued>>
       ELSE RegisterReq
    /\ UNCHANGED <<hist, procs, config, db>>

\* POST /login: authLimiter, then the controller.
LimitedLogin(ip) ==
    /\ Counted(ip)
    /\ IF Rejected(ip)
       THEN /\ \E e \in LimitedEmails, p \in Passwords :
                  req' = Request("login", e, p, NoToken, 0)
            /\ resp' = TooManyRequests
            /\ UNCHANGED <<users, now, issued>>
       ELSE \E e \in LimitedEmails, p \in Passwords : login(e, p)
    /\ UNCHANGED <<hist, procs, config, db>>

\* The clock advances, up to the end of the windows followed.
WindowTick == Tick /\ now + 1 < MaxWindows * AuthLimiterWindow

NextLimited ==
    \/ \E ip \in ClientIps : LimitedRegister(ip)
    \/ \E ip \in ClientIps : LimitedLogin(ip)
    \/ WindowTick

SpecLimited == Init /\ [][NextLimited]_vars

(* ------ sessions, remembering which tokens were exchanged or revoked --- *)
\* hist.rotated: the tokens a successful refresh exchanged before the request
\* handled last; hist.cleared: the tokens issued to a user before a logoutAll
\* of that user that completed before the request handled last.
Remember ==
    hist' = [hist EXCEPT
        !.rotated = IF req.op = "refresh" /\ resp.status = 200
                    THEN @ \cup {req.token} ELSE @,
        !.cleared = IF req.op = "logoutAll"
                    THEN @ \cup {t \in issued : t.id = req.uid} ELSE @]

RegisterTracked == RegisterReq /\ Remember /\ UNCHANGED <<procs, config, limiter, db>>
LoginOkTracked == LoginOkReq /\ Remember /\ UNCHANGED <<procs, config, limiter, db>>
RefreshTokenTracked == RefreshReq /\ Remember /\ UNCHANGED <<procs, config, limiter, db>>
LogoutTracked == LogoutReq /\ Remember /\ UNCHANGED <<procs, config, limiter, db>>
LogoutAllTracked == LogoutAllReq /\ Remember /\ UNCHANGED <<procs, config, limiter, db>>

NextTracked ==
    \/ RegisterTracked
    \/ LoginOkTracked
    \/ RefreshTokenTracked
    \/ LogoutTracked
    \/ LogoutAllTracked
    \/ Tick

SpecTracked == Init /\ [][NextTracked]_vars

(* ---------- sessions, remembering which tokens a logout removed -------- *)
\* hist.loggedOut: the tokens a logout removed from a registry.
LogoutNoted ==
    /\ LogoutReq
    /\ hist' = [hist EXCEPT !.loggedOut =
                   IF users' # users THEN @ \cup {req'.token} ELSE @]
    /\ UNCHANGED <<procs, config, limiter, db>>

NextLogout ==
    \/ Register
    \/ LoginOk
    \/ RefreshToken
    \/ LogoutNoted
    \/ Tick

SpecLogout == Init /\ [][NextLogout]_vars

(* ------------- lockout: logins with right and wrong passwords ---------- *)
\* The stored user an e-mail names in a collection (or NoUser).
StoredByEmail(coll, e) ==
    IF \E i \in 1..Len(coll) : coll[i].email = toLowerCase(e)
    THEN coll[CHOOSE i \in 1..Len(coll) : coll[i].email = toLowerCase(e)]
    ELSE NoUser

\* hist.streak: wrong-password rejections of the account since its
\* registration or last successful login; hist.failAt: time of the last one.
LoginCounted ==
    /\ LoginReq
    /\ hist' =
         IF resp'.status = 200
         THEN [hist EXCEPT !.streak = 0, !.failAt = NoDate]
         ELSE IF resp'.status = 401 /\ StoredByEmail(users, req'.email) # NoUser
         THEN [hist EXCEPT !.streak = IF @ <= LockThreshold THEN @ + 1 ELSE @,
                           !.failAt = now]
         ELSE hist
    /\ UNCHANGED <<procs, config, limiter, db>>

NextLockout ==
    \/ Register
    \/ LoginCounted
    \/ SetActive
    \/ Tick

SpecLockout == Init /\ [][NextLockout]_vars

(* --------------- logins running concurrently on one account ----------- *)
\* The account of the concurrent logins: registered at time 0, then k
\* wrong-password logins at time 0, one after the other.
RECURSIVE AfterFailures(_, _)
AfterFailures(u, k) ==
    IF k = 0 THEN u
    ELSE LET v == AfterFailures(u, k - 1) IN incLoginAttempts(v, v, 0)

RaceEmail == "alice@example.com"
RacePassword == "wrong-pass"

RaceAccount(k) ==
    LET user == [id |-> 1, fullName |-> "Alice", email |-> RaceEmail,
                 password |-> hashPassword(Plain("Secur3!pass")), role |-> "user",
                 isActive |-> TRUE, loginAttempts |-> 0, lockUntil |-> NoDate,
                 refreshTokens |-> << >>, lastLogin |-> NoDate]
    IN  AfterFailures(
            [user EXCEPT !.refreshTokens =
                addRefreshToken(<< >>, generateRefreshToken(user, 0), 0)], k)

InitRace ==
    /\ config = DefaultConfig
    /\ limiter = EmptyStore
    /\ db = Connected
    /\ \E k \in 0..LockThreshold :
          /\ users = <<RaceAccount(k)>>
          /\ hist = [NoHistory EXCEPT !.start = RaceAccount(k)]
    /\ now = 0
    /\ req = [op |-> "none", at |-> 0, before |-> << >>, email |-> "",
              password |-> "", token |-> NoToken, uid |-> 0]
    /\ resp = Response(0, "", NoToken, NoToken)
    /\ issued = {users[1].refreshTokens[1].token}
    /\ procs = [p \in Procs |-> Idle]

\* login up to `await user.comparePassword(password)`: the document is
\* loaded, the lock and the active flag are checked on it.
LoginLoad(p) ==
    LET user == findByEmail(RaceEmail)
        status == IF user = NoUser THEN 401
                  ELSE IF isLocked(user, now) THEN 423
                  ELSE IF ~user.isActive THEN 403
                  ELSE 0
    IN  /\ procs[p].pc = "idle"
        /\ procs' = [procs EXCEPT ![p] =
              [pc |-> IF status = 0 THEN "compare" ELSE "done",
               doc |-> user, t0 |-> now,
               t1 |-> IF status = 0 THEN NoDate ELSE now,
               status |-> status]]
        /\ UNCHANGED <<users, now, req, resp, issued, hist, config, limiter, db>>

\* login from the end of comparePassword, the password being wrong:
\* `await user.incLoginAttempts()` decides on the loaded document and
\* updates the stored one; then 401.
LoginFail(p) ==
    /\ procs[p].pc = "compare"
    /\ ~comparePassword(RacePassword, procs[p].doc.password)
    /\ users' = [users EXCEPT ![procs[p].doc.id] =
                    incLoginAttempts(procs[p].doc, users[procs[p].doc.id], now)]
    /\ procs' = [procs EXCEPT ![p].pc = "done", ![p].t1 = now,
                              ![p].status = 401]
    /\ UNCHANGED <<now, req, resp, issued, hist, config, limiter, db>>

NextRace ==
    \/ \E p \in Procs : LoginLoad(p)
    \/ \E p \in Procs : LoginFail(p)
    \/ Tick

SpecRace == InitRace /\ [][NextRace]_vars

(* ------- logins and refreshes of one user overlapping in time ---------- *)
\* Stored documents carry the version key `v` (Mongoose's __v) here: save()
\* of a re-assigned array sends {$set: array, $inc: __v} filtered by the
\* __v the document was loaded with, save() of a pushed element sends
\* {$push: element, $inc: __v} filtered by _id only.  Requests handled one
\* at a time never see a stale __v, so the other specifications omit it.

\* The filter of an array $set matching whatever the stored version is.
versionMatches_Unchecked(cur, doc) == TRUE

\* The filter of an array $set matching any stored version not older than
\* the one in memory.
versionMatches_Stale(cur, doc) == cur.v >= doc.v

\* save() of a re-assigned array: the update matches the stored document
\* only if its __v is the one in memory (else VersionError).
versionMatches(cur, doc) == cur.v = doc.v

\* save() after `this.refreshTokens = ...`: {$set: {refreshTokens}, $inc: {__v}}
saveAssigned(cur, toks) == [cur EXCEPT !.refreshTokens = toks, !.v = @ + 1]

\* save() after `this.refreshTokens.push(e)`: {$push: {refreshTokens: e},
\* $inc: {__v}}
savePushed(cur, e) ==
    [cur EXCEPT !.refreshTokens = Append(@, e), !.v = @ + 1]

\* The account of the overlapping requests: registered at time 0, then k
\* successful logins at time 0, one after the other.
RECURSIVE AfterLogins(_, _)
AfterLogins(u, k) ==
    IF k = 0 THEN u
    ELSE LET w == AfterLogins(u, k - 1)
         IN  savePushed(w, [token |-> generateRefreshToken(w, 0),
                            createdAt |-> 0, expiresAt |-> RegistryTTL])

OverlapEmail == "alice@example.com"
OverlapPassword == "Secur3!pass"

OverlapAccount(k) ==
    LET user == [id |-> 1, fullName |-> "Alice", email |-> OverlapEmail,
                 password |-> hashPassword(Plain(OverlapPassword)),
                 role |-> "user", isActive |-> TRUE, loginAttempts |-> 0,
                 lockUntil |-> NoDate, refreshTokens |-> << >>,
                 lastLogin |-> NoDate, v |-> 0]
    IN  AfterLogins(user, k + 1)

\* A request not yet started: the operation, the document in memory, the
\* registry as loaded, the presented token, the token handed back, and
\* whether it started after another request had ended.
Waiting ==
    [pc |-> "idle", op |-> "none", doc |-> NoUser, loaded |-> << >>,
     tok |-> NoToken, cookie |-> NoToken, status |-> 0, late |-> FALSE]

\* Some other request has already ended when p starts.
StartsLate(p) == \E q \in Procs \ {p} : procs[q].pc = "done"

InitOverlap ==
    /\ config = DefaultConfig
    /\ limiter = EmptyStore
    /\ db = Connected
    /\ \E k \in 0..(MaxRefreshTokens - 1) : users = <<OverlapAccount(k)>>
    /\ now = 0
    /\ req = [op |-> "none", at |-> 0, before |-> << >>, email |-> "",
              password |-> "", token |-> NoToken, uid |-> 0]
    /\ resp = Response(0, "", NoToken, NoToken)
    /\ issued = {users[1].refreshTokens[1].token}
    /\ hist = NoHistory
    /\ procs = [p \in Procs |-> Waiting]

\* A request ends: its status and, on success, the cookie it sets.
Finish(p, status, cookie) ==
    /\ procs' = [procs EXCEPT ![p].pc = "done", ![p].status = status,
                              ![p].cookie = cookie]
    /\ issued' = IF cookie = NoToken THEN issued ELSE issued \cup {cookie}

\* login up to the end of comparePassword: the document is loaded and
\* checked.
LoginBegin(p) ==
    LET user == findByEmail(OverlapEmail)
        status == IF user = NoUser THEN 401
                  ELSE IF isLocked(user, now) THEN 423
                  ELSE IF ~user.isActive THEN 403
                  ELSE IF ~comparePassword(OverlapPassword, user.password)
                  THEN 401
                  ELSE 0
    IN  /\ procs[p].pc = "idle"
        /\ status = 0
        /\ procs' = [procs EXCEPT ![p] =
              [Waiting EXCEPT !.pc = "reset", !.op = "login", !.doc = user,
                              !.loaded = user.refreshTokens,
                              !.late = StartsLate(p)]]
        /\ UNCHANGED <<users, now, req, resp, issued, hist, config, limiter, db>>

\* await user.resetLoginAttempts(); await user.updateLastLogin(): an
\* updateOne and a save of lastLogin, neither touching registry or __v.
LoginReset(p) ==
    /\ procs[p].pc = "reset"
    /\ users' = [users EXCEPT ![procs[p].doc.id] =
                    preSave(updateLastLogin(resetLoginAttempts(@), now), FALSE)]
    /\ procs' = [procs EXCEPT ![p].pc = "cleanup",
                              ![p].doc = updateLastLogin(@, now)]
    /\ UNCHANGED <<now, req, resp, issued, hist, config, limiter, db>>

\* await user.cleanupExpiredTokens(): the filtered array is assigned; save
\* writes nothing when the array is unchanged, else the whole array under
\* the version filter; a VersionError ends login with 500.
LoginCleanup(p) ==
    LET doc == procs[p].doc
        kept == cleanupExpiredTokens(doc.refreshTokens, now)
    IN  /\ procs[p].pc = "cleanup"
        /\ IF kept = doc.refreshTokens
           THEN /\ procs' = [procs EXCEPT ![p].pc = "add"]
                /\ UNCHANGED <<users, issued>>
           ELSE IF versionMatches(users[doc.id], doc)
           THEN /\ users' = [users EXCEPT ![doc.id] = saveAssigned(@, kept)]
                /\ procs' = [procs EXCEPT ![p].pc = "add",
                                          ![p].doc = saveAssigned(@, kept)]
                /\ UNCHANGED issued
           ELSE /\ Finish(p, 500, NoToken)
                /\ UNCHANGED users
        /\ UNCHANGED <<now, req, resp, hist, config, limiter, db>>

\* The save of addRefreshToken for the document in memory: a $push of the
\* new entry, or, when the array was cut to its last 5, the whole array
\* under the version filter.
AddWrites(doc, tok) ==
    LET toks == addRefreshToken(doc.refreshTokens, tok, now)
    IN  [cut |-> Len(doc.refreshTokens) + 1 > MaxRefreshTokens,
         toks |-> toks, entry |-> toks[Len(toks)]]

\* generateRefreshToken(); await user.addRefreshToken(refreshToken); 200.
LoginAdd(p) ==
    LET doc == procs[p].doc
        token == generateRefreshToken(doc, now)
        w == AddWrites(doc, token)
    IN  /\ procs[p].pc = "add"
        /\ procs[p].op = "login"
        /\ IF ~w.cut
           THEN /\ users' = [users EXCEPT ![doc.id] = savePushed(@, w.entry)]
                /\ Finish(p, 200, token)
           ELSE IF versionMatches(users[doc.id], doc)
           THEN /\ users' = [users EXCEPT ![doc.id] = saveAssigned(@, w.toks)]
                /\ Finish(p, 200, token)
           ELSE /\ Finish(p, 500, NoToken)
                /\ UNCHANGED users
        /\ UNCHANGED <<now, req, resp, hist, config, limiter, db>>

\* refreshToken up to generateRefreshToken(): the cookie is verified, the
\* user loaded, the registry searched, the new token signed.
RefreshBegin(p, tok) ==
    LET verified == jwtVerifyRefresh(tok, now)
        user == IF verified THEN findById(tok.id) ELSE NoUser
    IN  /\ procs[p].pc = "idle"
        /\ IF verified /\ user # NoUser /\ tokenExists(user.refreshTokens, tok)
           THEN /\ procs' = [procs EXCEPT ![p] =
                      [Waiting EXCEPT !.pc = "remove", !.op = "refresh",
                                      !.doc = user,
                                      !.loaded = user.refreshTokens,
                                      !.tok = tok,
                                      !.cookie = generateRefreshToken(user, now),
                                      !.late = StartsLate(p)]]
                /\ UNCHANGED issued
           ELSE /\ procs' = [procs EXCEPT ![p] =
                      [Waiting EXCEPT !.pc = "done", !.op = "refresh",
                                      !.tok = tok, !.status = 401,
                                      !.late = StartsLate(p)]]
                /\ UNCHANGED issued
        /\ UNCHANGED <<users, now, req, resp, hist, config, limiter, db>>

\* await user.removeRefreshToken(refreshToken): the filtered array is
\* assigned and saved under the version filter; a VersionError is caught
\* and answered 401.
RefreshRemove(p) ==
    LET doc == procs[p].doc
        kept == removeRefreshToken(doc.refreshTokens, procs[p].tok)
    IN  /\ procs[p].pc = "remove"
        /\ IF versionMatches(users[doc.id], doc)
           THEN /\ users' = [users EXCEPT ![doc.id] = saveAssigned(@, kept)]
                /\ procs' = [procs EXCEPT ![p].pc = "add",
                                          ![p].doc = saveAssigned(@, kept)]
                /\ UNCHANGED issued
           ELSE /\ Finish(p, 401, NoToken)
                /\ UNCHANGED users
        /\ UNCHANGED <<now, req, resp, hist, config, limiter, db>>

\* await user.addRefreshToken(newRefreshToken); the cookie is set; 200.
RefreshAdd(p) ==
    LET doc == procs[p].doc
        w == AddWrites(doc, procs[p].cookie)
    IN  /\ procs[p].pc = "add"
        /\ procs[p].op = "refresh"
        /\ IF ~w.cut
           THEN /\ users' = [users EXCEPT ![doc.id] = savePushed(@, w.entry)]
                /\ Finish(p, 200, procs[p].cookie)
           ELSE IF versionMatches(users[doc.id], doc)
           THEN /\ users' = [users EXCEPT ![doc.id] = saveAssigned(@, w.toks)]
                /\ Finish(p, 200, procs[p].cookie)
           ELSE /\ Finish(p, 401, NoToken)
                /\ UNCHANGED users
        /\ UNCHANGED <<now, req, resp, hist, config, limiter, db>>

NextOverlap ==
    \/ \E p \in Procs : LoginBegin(p)
    \/ \E p \in Procs : LoginReset(p)
    \/ \E p \in Procs : LoginCleanup(p)
    \/ \E p \in Procs : LoginAdd(p)
    \/ \E p \in Procs, tok \in issued : RefreshBegin(p, tok)
    \/ \E p \in Procs : RefreshRemove(p)
    \/ \E p \in Procs : RefreshAdd(p)
    \/ Tick

SpecOverlap == InitOverlap /\ [][NextOverlap]_vars

(* ------------------- logoutAll among overlapping requests ------------- *)
\* The authenticated user of the overlapping logoutAll (req.user.id).
OverlapUserId == 1

\* logoutAll up to clearAllRefreshTokens: the user is loaded by id.
LogoutAllBegin(p) ==
    LET user == findById(OverlapUserId)
    IN  /\ procs[p].pc = "idle"
        /\ user # NoUser
        /\ procs' = [procs EXCEPT ![p] =
              [Waiting EXCEPT !.pc = "clear", !.op = "logoutAll",
                              !.doc = user, !.loaded = user.refreshTokens,
                              !.late = StartsLate(p)]]
        /\ UNCHANGED <<users, now, req, resp, issued, hist, config, limiter, db>>

\* await user.clearAllRefreshTokens(): the empty array is assigned; save
\* writes nothing when the array was empty, else the empty array under the
\* version filter; a VersionError is caught and answered 500.
LogoutAllClear(p) ==
    LET doc == procs[p].doc
        kept == clearAllRefreshTokens(doc.refreshTokens)
    IN  /\ procs[p].pc = "clear"
        /\ IF kept = doc.refreshTokens
           THEN /\ Finish(p, 200, NoToken)
                /\ UNCHANGED users
           ELSE IF versionMatches(users[doc.id], doc)
           THEN /\ users' = [users EXCEPT ![doc.id] = saveAssigned(@, kept)]
                /\ Finish(p, 200, NoToken)
           ELSE /\ Finish(p, 500, NoToken)
                /\ UNCHANGED users
        /\ UNCHANGED <<now, req, resp, hist, config, limiter, db>>

NextRevoke ==
    \/ \E p \in Procs : LoginBegin(p)
    \/ \E p \in Procs : LoginReset(p)
    \/ \E p \in Procs : LoginCleanup(p)
    \/ \E p \in Procs : LoginAdd(p)
    \/ \E p \in Procs, tok \in issued : RefreshBegin(p, tok)
    \/ \E p \in Procs : RefreshRemove(p)
    \/ \E p \in Procs : RefreshAdd(p)
    \/ \E p \in Procs : LogoutAllBegin(p)
    \/ \E p \in Procs : LogoutAllClear(p)
    \/ Tick

SpecRevoke == InitOverlap /\ [][NextRevoke]_vars

(* ======================= properties of the service ==================== *)
\* The account the login handled last addressed, as stored before it.
LoginAccount == StoredByEmail(req.before, req.email)
\* The same account as stored now.
LoginAccountNow == users[LoginAccount.id]
\* The login handled last reached an account that was not locked at that time.
LoginNotLocked ==
    /\ req.op = "login"
    /\ LoginAccount # NoUser
    /\ (LoginAccount.lockUntil = NoDate \/ LoginAccount.lockUntil <= req.at)
\* The password of the login handled last is the one the account registered.
LoginPasswordRight ==
    LoginAccount.password = hashPassword(Plain(req.password))
\* The response carries no token at all.
NoTokensIssued == resp.cookie = NoToken /\ resp.accessToken = NoToken
\* The token of the refresh handled last: its user and registry before it.
RefreshAccount ==
    IF req.token # NoToken /\ req.token.id \in 1..Len(req.before)
    THEN req.before[req.token.id] ELSE NoUser
RefreshTokenSigned ==
    /\ req.token # NoToken
    /\ req.token.key = config.JWT_REFRESH_SECRET
    /\ req.at < req.token.exp
RefreshTokenRegistered ==
    /\ RefreshAccount # NoUser
    /\ \E i \in 1..Len(RefreshAccount.refreshTokens) :
           RefreshAccount.refreshTokens[i].token = req.token

\* C1: once a refresh has exchanged a refresh token T for a new pair,
\* presenting T to refresh again fails with 401 and issues no tokens.
C1_RotationSingleUse ==
    (req.op = "refresh" /\ req.token \in hist.rotated)
        => (resp.status = 401 /\ NoTokensIssued)

\* C2: counting wrong-password logins from loginAttempts = 0 and no lock, the
\* account is not locked after each of the first 4, and after the 5th it has
\* loginAttempts = 5 and lockUntil = (time of the 5th failure) + 2 hours.
C2_LockAfterFiveFailures ==
    Len(users) >= 1 =>
        /\ hist.streak \in 1..(LockThreshold - 1) =>
              /\ users[1].loginAttempts = hist.streak
              /\ ~(users[1].lockUntil # NoDate /\ users[1].lockUntil > hist.failAt)
        /\ hist.streak = LockThreshold =>
              /\ users[1].loginAttempts = LockThreshold
              /\ users[1].lockUntil = hist.failAt + LockDuration
              /\ users[1].lockUntil > hist.failAt

C2_Witness ==
    /\ Len(users) >= 1
    /\ hist.streak = LockThreshold
    /\ req.op = "login" /\ resp.status = 401
    /\ users[1].lockUntil = req.at + LockDuration

\* C3: a login for an account whose lockUntil is later than the current time
\* answers 423 whether the password is right or wrong, and issues no token.
C3_LockedLoginRejected ==
    (/\ req.op = "login"
     /\ LoginAccount # NoUser
     /\ LoginAccount.lockUntil # NoDate
     /\ LoginAccount.lockUntil > req.at)
        => /\ resp.status = 423
           /\ NoTokensIssued
           /\ LoginAccountNow.refreshTokens = LoginAccount.refreshTokens

C3_Witness ==
    /\ req.op = "login"
    /\ LoginAccount # NoUser
    /\ LoginAccount.lockUntil # NoDate
    /\ LoginAccount.lockUntil > req.at
    /\ LoginPasswordRight
    /\ resp.status = 423

\* C4: refresh returns a new pair only if the presented token is an entry of
\* the registry of the user its id claim names; a signed, unexpired refresh
\* token absent from that registry is rejected with 401.
C4_RefreshNeedsRegistryEntry ==
    req.op = "refresh" =>
        /\ resp.status = 200 => RefreshTokenRegistered
        /\ (RefreshTokenSigned /\ ~RefreshTokenRegistered)
              => /\ resp.status = 401
                 /\ NoTokensIssued
                 /\ \A u \in 1..Len(users) :
                       users[u].refreshTokens = req.before[u].refreshTokens

C4_Witness ==
    /\ req.op = "refresh"
    /\ req.token \in issued
    /\ RefreshTokenSigned
    /\ RefreshAccount # NoUser
    /\ ~RefreshTokenRegistered
    /\ resp.status = 401

\* C5: after logoutAll(U), every refresh token issued to U before it fails
\* with 401 when presented to refresh, and U's registry is empty right after
\* logoutAll.
C5_LogoutAllRevokesAll ==
    /\ (req.op = "refresh" /\ req.token \in hist.cleared)
          => (resp.status = 401 /\ NoTokensIssued)
    /\ (req.op = "logoutAll" /\ req.uid \in 1..Len(users))
          => users[req.uid].refreshTokens = << >>

\* C6: every registry holds at most 5 entries; when the add of a login or
\* refresh meets 5 entries, the oldest is dropped and the other 4 stay in
\* order, followed by the new token.
\* The registry the add of the request handled last was applied to: a login
\* first drops the expired entries, a refresh the presented token.
AddBase ==
    IF req.op = "login"
    THEN SelectSeq(LoginAccount.refreshTokens, LAMBDA e : e.expiresAt > req.at)
    ELSE SelectSeq(RefreshAccount.refreshTokens, LAMBDA e : e.token # req.token)
AddAccountNow ==
    IF req.op = "login" THEN LoginAccountNow ELSE users[RefreshAccount.id]
C6_RegistryAtMostFive ==
    /\ \A u \in 1..Len(users) : Len(users[u].refreshTokens) <= MaxRefreshTokens
    /\ (/\ req.op \in {"login", "refresh"} /\ resp.status = 200
        /\ Len(AddBase) >= MaxRefreshTokens)
          => LET after == AddAccountNow.refreshTokens
             IN  /\ Len(AddBase) = MaxRefreshTokens
                 /\ Len(after) = MaxRefreshTokens
                 /\ SubSeq(after, 1, MaxRefreshTokens - 1) = Tail(AddBase)
                 /\ after[MaxRefreshTokens].token = resp.cookie

C6_Witness ==
    /\ req.op = "login" /\ resp.status = 200
    /\ Len(AddBase) = MaxRefreshTokens
    /\ AddBase[1].token # AddBase[2].token
    /\ LoginAccountNow.refreshTokens[1] = AddBase[2]

\* C7: a login with the right password on a not-locked, active account
\* succeeds and leaves loginAttempts = 0 and no lockUntil, whatever they were.
C7_SuccessResetsLockout ==
    (LoginNotLocked /\ LoginAccount.isActive /\ LoginPasswordRight)
        => /\ resp.status = 200
           /\ LoginAccountNow.loginAttempts = 0
           /\ LoginAccountNow.lockUntil = NoDate

C7_Witness ==
    /\ LoginNotLocked /\ LoginAccount.isActive /\ LoginPasswordRight
    /\ LoginAccount.loginAttempts \in 1..(LockThreshold - 1)
    /\ resp.status = 200
    /\ LoginAccountNow.loginAttempts = 0

\* C8: an account locked by 5 failed logins is usable again once the clock
\* has passed lockUntil: a login with the right password then succeeds and
\* leaves loginAttempts = 0.
C8_LockExpiresByTime ==
    (/\ req.op = "login"
     /\ LoginAccount # NoUser
     /\ LoginAccount.loginAttempts >= LockThreshold
     /\ LoginAccount.lockUntil # NoDate
     /\ req.at > LoginAccount.lockUntil
     /\ LoginAccount.isActive
     /\ LoginPasswordRight)
        => (resp.status = 200 /\ resp.cookie # NoToken
            /\ LoginAccountNow.loginAttempts = 0)

C8_Witness ==
    /\ req.op = "login"
    /\ LoginAccount # NoUser
    /\ LoginAccount.loginAttempts = LockThreshold
    /\ LoginAccount.lockUntil # NoDate
    /\ req.at > LoginAccount.lockUntil
    /\ resp.status = 200
    /\ LoginAccountNow.loginAttempts = 0

\* C9: a wrong-password login on a not-locked, active account applies the
\* lockout function: a lockUntil in the past gives attempts 1 and no
\* lockUntil; otherwise attempts grow by 1 and, when the new count is at
\* least 5, lockUntil = now + 2 hours.
C9_FailedLoginIsLockoutFunction ==
    (LoginNotLocked /\ LoginAccount.isActive /\ ~LoginPasswordRight)
        => IF LoginAccount.lockUntil # NoDate /\ LoginAccount.lockUntil < req.at
           THEN /\ LoginAccountNow.loginAttempts = 1
                /\ LoginAccountNow.lockUntil = NoDate
           ELSE /\ LoginAccountNow.loginAttempts = LoginAccount.loginAttempts + 1
                /\ LoginAccount.loginAttempts + 1 >= LockThreshold
                      => LoginAccountNow.lockUntil = req.at + LockDuration

\* The wrong-password login handler run alone at time t on account u.
SerialLogin(u, t) ==
    IF u.lockUntil # NoDate /\ u.lockUntil > t THEN u
    ELSE incLoginAttempts(u, u, t)
\* Times at which request p can take effect: between its start and its end.
Span(p) == procs[p].t0 .. procs[p].t1
\* The accounts left by running the two requests one after the other, in
\* either order, each at a time within its span.
SerialOutcomes ==
    { SerialLogin(SerialLogin(hist.start, ta), tb) :
        <<ta, tb>> \in { pair \in (Span("p1") \X Span("p2"))
                                   \cup (Span("p2") \X Span("p1")) :
                           pair[1] <= pair[2] } }

\* C10: when two wrong-password logins on one account run concurrently, the
\* stored loginAttempts and lockUntil after both equal those left by running
\* the two one after the other.
C10_ConcurrentFailuresBothCounted ==
    (\A p \in Procs : procs[p].pc = "done")
        => \E u \in SerialOutcomes :
              /\ users[1].loginAttempts = u.loginAttempts
              /\ users[1].lockUntil = u.lockUntil

(* ------------------------------ registration -------------------------- *)
\* E-mail addresses that differ by letter case only.
Spellings ==
    {{"alice@example.com", "Alice@Example.com"}, {"bob@example.com"}}
SameUpToCase(a, b) == \E c \in Spellings : a \in c /\ b \in c

\* The stored user whose e-mail equals that of the registration handled
\* last up to letter case, as stored before it (or NoUser).
RegisterExisting ==
    IF \E i \in 1..Len(req.before) :
            SameUpToCase(req.before[i].email, req.email)
    THEN req.before[CHOOSE i \in 1..Len(req.before) :
            SameUpToCase(req.before[i].email, req.email)]
    ELSE NoUser

\* C13: registering an e-mail that no stored user has creates one user with
\* loginAttempts 0, no lock, role user, and a registry of exactly one entry:
\* the refresh token the registration hands back.
C13_FreshRegistrationState ==
    (req.op = "register" /\ RegisterExisting = NoUser) =>
        /\ resp.status = 201
        /\ Len(users) = Len(req.before) + 1
        /\ LET u == users[Len(users)]
           IN  /\ SameUpToCase(u.email, req.email)
               /\ u.loginAttempts = 0
               /\ u.lockUntil = NoDate
               /\ ~isLocked(u, req.at)
               /\ u.role = "user"
               /\ Len(u.refreshTokens) = 1
               /\ resp.cookie # NoToken
               /\ u.refreshTokens[1].token = resp.cookie

C13_Witness ==
    /\ req.op = "register"
    /\ RegisterExisting = NoUser
    /\ resp.status = 201
    /\ Len(users) = 1
    /\ users[1].refreshTokens[1].token = resp.cookie

\* C14: registering an e-mail that equals a stored user's e-mail up to
\* letter case fails with 409, creates no user, issues no token and leaves
\* the stored user (password, lockout fields, registry) as it was.
C14_DuplicateRegistrationConflict ==
    (req.op = "register" /\ RegisterExisting # NoUser) =>
        /\ resp.status = 409
        /\ NoTokensIssued
        /\ Len(users) = Len(req.before)
        /\ users[RegisterExisting.id].password = RegisterExisting.password
        /\ users[RegisterExisting.id].loginAttempts
              = RegisterExisting.loginAttempts
        /\ users[RegisterExisting.id].lockUntil = RegisterExisting.lockUntil
        /\ users[RegisterExisting.id].refreshTokens
              = RegisterExisting.refreshTokens

C14_Witness ==
    /\ req.op = "register"
    /\ RegisterExisting # NoUser
    /\ RegisterExisting.email # req.email
    /\ Len(RegisterExisting.refreshTokens) > 1
    /\ resp.status = 409

(* --------------------------- what the caller sees --------------------- *)
\* C15: a login for an e-mail with no stored user and a login with a wrong
\* password for a stored, not locked, active account get the same answer:
\* status 401, message "Invalid credentials", no token.
C15_LoginFailuresIndistinguishable ==
    (/\ req.op = "login"
     /\ \/ LoginAccount = NoUser
        \/ /\ LoginNotLocked
           /\ LoginAccount.isActive
           /\ ~LoginPasswordRight)
        => /\ resp.status = 401
           /\ resp.message = "Invalid credentials"
           /\ NoTokensIssued

C15_Witness ==
    /\ req.op = "login"
    /\ LoginNotLocked
    /\ LoginAccount.isActive
    /\ ~LoginPasswordRight
    /\ LoginAccount.loginAttempts > 0
    /\ resp.status = 401
    /\ resp.message = "Invalid credentials"

\* C17: login checks in the order user-exists, locked, active, password: a
\* locked and inactive account is answered 423; an inactive account that is
\* not locked is answered 403 whether the password is right or wrong, and
\* its loginAttempts, lockUntil and registry stay as they were.
C17_LoginCheckOrder ==
    (req.op = "login" /\ LoginAccount # NoUser /\ ~LoginAccount.isActive) =>
        IF LoginAccount.lockUntil # NoDate /\ LoginAccount.lockUntil > req.at
        THEN resp.status = 423
        ELSE /\ resp.status = 403
             /\ resp.message = "Account is deactivated"
             /\ NoTokensIssued
             /\ LoginAccountNow.loginAttempts = LoginAccount.loginAttempts
             /\ LoginAccountNow.lockUntil = LoginAccount.lockUntil
             /\ LoginAccountNow.refreshTokens = LoginAccount.refreshTokens
             /\ LoginAccountNow.password = LoginAccount.password

C17_Witness ==
    /\ req.op = "login"
    /\ LoginAccount # NoUser
    /\ ~LoginAccount.isActive
    /\ LoginAccount.lockUntil # NoDate
    /\ LoginAccount.lockUntil > req.at
    /\ resp.status = 423

\* The refresh handled last presented a token and was rejected.
RefreshRejected ==
    req.op = "refresh" /\ req.token # NoToken /\ resp.status # 200

\* C18: every rejection of a presented refresh token (expired, wrongly
\* signed, user missing, absent from the registry) is one and the same
\* outward failure: two rejections in a row carry the same status and the
\* same message.
C18_RefreshRejectionsUniform ==
    [][(RefreshRejected /\ RefreshRejected')
          => (resp'.status = resp.status /\ resp'.message = resp.message)]_vars

\* C19: a refresh presenting a token of the service whose lifetime has
\* elapsed fails with 401, issues nothing and leaves every registry as it
\* was, also when the token is still an entry of its user's registry.
C19_ExpiredRefreshRejected ==
    (/\ req.op = "refresh"
     /\ req.token # NoToken
     /\ req.token.key = config.JWT_REFRESH_SECRET
     /\ req.at >= req.token.exp)
        => /\ resp.status = 401
           /\ NoTokensIssued
           /\ \A u \in 1..Len(users) :
                 users[u].refreshTokens = req.before[u].refreshTokens

C19_Witness ==
    /\ req.op = "refresh"
    /\ req.token # NoToken
    /\ req.token.key = config.JWT_REFRESH_SECRET
    /\ req.at >= req.token.exp
    /\ RefreshTokenRegistered
    /\ resp.status = 401

(* ------------------------------ stored password ----------------------- *)
\* C20: the stored password is the digest written by the hashing step of
\* the registration, hashed once and never the plaintext; login (every
\* outcome), refresh, logout and logoutAll save the record and leave the
\* stored password as it was.
C20_PasswordWrittenByHashingOnly ==
    /\ \A i \in 1..Len(users) :
          /\ users[i].password # Plain(users[i].password.text)
          /\ \E p \in RegPasswords :
                users[i].password = [text |-> p, rounds |-> 1]
    /\ req.op \in {"login", "refresh", "logout", "logoutAll"} =>
          \A i \in 1..Len(req.before) :
              users[i].password = req.before[i].password

C20_Witness ==
    /\ req.op = "login"
    /\ resp.status = 200
    /\ LoginAccountNow.lastLogin = req.at
    /\ Len(LoginAccountNow.refreshTokens) > 1
    /\ LoginAccountNow.password = LoginAccount.password
    /\ LoginAccountNow.password = [text |-> req.password, rounds |-> 1]

(* -------------------- overlapping logins and refreshes ---------------- *)
\* The registry stored for the user of the overlapping requests.
OverlapRegistry == users[1].refreshTokens

\* Both requests were logins and both have ended.
BothLoginsDone ==
    \A p \in Procs : procs[p].op = "login" /\ procs[p].pc = "done"

\* C11: when two correct-password logins of one user overlap, once both
\* have ended every login answered 200 has the refresh token it handed
\* back in the stored registry, as long as that entry has not expired:
\* neither login's write overwrote the other's freshly added token.
C11_ConcurrentLoginsKeepBothTokens ==
    BothLoginsDone =>
        \A p \in Procs :
            (procs[p].status = 200 /\ now < procs[p].cookie.iat + RegistryTTL)
                => tokenExists(OverlapRegistry, procs[p].cookie)

\* Both logins succeeded with different tokens and neither had loaded the
\* other's token.
C11_Witness ==
    /\ BothLoginsDone
    /\ \A p \in Procs : procs[p].status = 200
    /\ procs["p1"].cookie # procs["p2"].cookie
    /\ \A p, q \in Procs : ~tokenExists(procs[p].loaded, procs[q].cookie)
    /\ \A p \in Procs : tokenExists(OverlapRegistry, procs[p].cookie)

\* C12: rotation is one registry update: while a refresh of T into T' is
\* under way no stored state has T removed and T' not yet added.
C12_RotationIsOneUpdate ==
    \A p \in Procs :
        (procs[p].op = "refresh" /\ procs[p].pc = "add") =>
            \/ tokenExists(OverlapRegistry, procs[p].tok)
            \/ tokenExists(OverlapRegistry, procs[p].cookie)

(* --------------------------------- logout ----------------------------- *)
\* The user the logout handled last named, as stored before it (NoUser when
\* the cookie or the user id was absent or no such user is stored).
LogoutAccount ==
    IF req.token # NoToken /\ req.uid \in 1..Len(req.before)
    THEN req.before[req.uid] ELSE NoUser

\* C16: logout always answers 200; with a token T and a user id U present
\* and T in U's registry, T is removed, so a later refresh(T) fails with
\* 401; otherwise no registry changes; a second logout changes nothing.
C16_LogoutRevokesAndIsIdempotent ==
    /\ req.op = "logout" =>
          /\ resp.status = 200
          /\ \A u \in 1..Len(users) :
                users[u].refreshTokens =
                    IF LogoutAccount # NoUser /\ u = LogoutAccount.id
                    THEN SelectSeq(req.before[u].refreshTokens,
                                   LAMBDA e : e.token # req.token)
                    ELSE req.before[u].refreshTokens
    /\ (req.op = "refresh" /\ req.token \in hist.loggedOut) =>
          resp.status = 401

(* ------------------------ registry after a login ---------------------- *)
\* The entry a login or refresh at req.at stores for the cookie it answers.
NewEntry ==
    [token |-> resp.cookie, createdAt |-> req.at,
     expiresAt |-> req.at + RegistryTTL]
\* The entries of the account that had not expired when the login ran.
LoginUnexpired ==
    SelectSeq(LoginAccount.refreshTokens, LAMBDA e : e.expiresAt > req.at)
\* The newest MaxRefreshTokens entries of a registry.
Newest(toks) ==
    IF Len(toks) > MaxRefreshTokens
    THEN SubSeq(toks, Len(toks) - MaxRefreshTokens + 1, Len(toks))
    ELSE toks

\* C22 as stated: right after a successful login at time t every registry
\* entry has expiresAt > t, and the registry is exactly the entries that
\* had expiresAt > t, in their order, followed by the new token.
C22_LoginKeepsEveryUnexpiredEntry ==
    (req.op = "login" /\ resp.status = 200)
        => /\ \A i \in 1..Len(LoginAccountNow.refreshTokens) :
                 LoginAccountNow.refreshTokens[i].expiresAt > req.at
           /\ LoginAccountNow.refreshTokens = Append(LoginUnexpired, NewEntry)

\* C22 (amended): right after a successful login at time t every registry
\* entry has expiresAt > t, and the registry is the newest five of: the
\* entries that had expiresAt > t, in their order, followed by the new token.
C22_LoginDropsExpiredThenCaps ==
    (req.op = "login" /\ resp.status = 200)
        => /\ \A i \in 1..Len(LoginAccountNow.refreshTokens) :
                 LoginAccountNow.refreshTokens[i].expiresAt > req.at
           /\ LoginAccountNow.refreshTokens =
                 Newest(Append(LoginUnexpired, NewEntry))

\* A successful login that found an entry with expiresAt = t and dropped it.
C22_Witness ==
    /\ req.op = "login" /\ resp.status = 200
    /\ \E i \in 1..Len(LoginAccount.refreshTokens) :
          LoginAccount.refreshTokens[i].expiresAt = req.at
    /\ Len(LoginAccountNow.refreshTokens) = 1
    /\ LoginAccountNow.refreshTokens[1].createdAt = req.at

(* -------------------- lock under concurrent failures ------------------ *)
\* C29: under concurrent wrong-password logins on one account, whenever no
\* login is in flight and the stored loginAttempts is at least 5, the
\* stored lockUntil is set.
C29_ThresholdReachedMeansLocked ==
    (/\ \A p \in Procs : procs[p].pc \in {"idle", "done"}
     /\ users[1].loginAttempts >= LockThreshold)
        => users[1].lockUntil # NoDate

(* --------------------- registry under overlapping requests ------------ *)
\* C30: the stored registry never holds more than 5 entries, in every
\* interleaving of concurrent login and refresh requests of one user.
C30_RegistryAtMostFiveConcurrently ==
    Len(OverlapRegistry) <= MaxRefreshTokens

\* Two refreshes of the same token that ran concurrently: neither started
\* after the other had ended.
ConcurrentRefreshes(p, q) ==
    /\ p # q
    /\ procs[p].op = "refresh" /\ procs[q].op = "refresh"
    /\ procs[p].tok = procs[q].tok
    /\ procs[p].pc = "done" /\ procs[q].pc = "done"
    /\ ~procs[p].late /\ ~procs[q].late

C28_LogoutAllRevokesUnderConcurrency ==
    \A p, q \in Procs :
        (/\ p # q
         /\ procs[p].op = "logoutAll" /\ procs[p].pc = "done"
         /\ procs[q].op \in {"login", "refresh"} /\ procs[q].pc = "done"
         /\ ~procs[q].late)
            => \A i \in 1..Len(procs[p].loaded), j \in 1..Len(OverlapRegistry) :
                  OverlapRegistry[j].token # procs[p].loaded[i].token

(* ---------------------------- response bodies ------------------------- *)
\* The fields of a stored user that hold a secret.
SecretFields == {"password", "refreshTokens"}

\* C21: no response body of register, login, refresh, logout, logoutAll or
\* getProfile holds a refresh token, a plaintext password or a password
\* hash; a refresh token leaves only in the HTTP-only cookie that register,
\* login and refresh set.
C21_NoSecretInResponseBody ==
    /\ resp.accessToken # NoToken => resp.accessToken.typ = "access"
    /\ resp.user # NoUser => DOMAIN resp.user \cap SecretFields = {}
    /\ \A i \in 1..Len(resp.errors) :
          req.password = "" \/ resp.errors[i].value # req.password
    /\ resp.cookie # NoToken
          => /\ req.op \in {"register", "login", "refresh"}
             /\ resp.httpOnly

(* ------------------------ tokens and configuration -------------------- *)
\* C23: every registry entry added at time t has expiresAt = t + the
\* configured refresh-token lifetime, so it expires at the instant its
\* signed token does, whatever lifetime is configured.
C23_EntryExpiresWithToken ==
    \A u \in 1..Len(users) :
        \A i \in 1..Len(users[u].refreshTokens) :
            LET e == users[u].refreshTokens[i]
            IN  /\ e.expiresAt = e.createdAt + config.JWT_REFRESH_EXPIRES_IN
                /\ e.expiresAt = e.token.exp

\* The claims of a decoded payload other than the timestamps jwt.sign adds.
Claims(payload) ==
    [k \in DOMAIN payload \ {"iat", "exp"} |-> payload[k]]
\* The token with its signature replaced by one no secret produces.
Altered(tok) == [tok EXCEPT !.key = "altered-signature"]
\* The user the register or login handled last answered for, as stored.
AnsweredUser == users[resp.user.id]

C25_SecretsDistinctTokensNotInterchangeable ==
    /\ config.JWT_SECRET # config.JWT_REFRESH_SECRET
    /\ (/\ req.op = "refresh"
        /\ req.token # NoToken
        /\ req.token.typ = "access")
          => /\ resp.status = 401
             /\ NoTokensIssued
             /\ users = req.before

(* ------------------------------ rate limit ---------------------------- *)
\* The hits counted in the current window for the address of the register
\* or login handled last, that request included.
HitsCounted == limiter.clients[limiter.key].totalHits

\* C26: once 5 register and login requests of one client address have been
\* counted in its window, every further one is answered 429 by the limiter
\* and does not reach the controller: no user is created or changed and no
\* token is issued.
C26_AuthRequestsLimitedPerIp ==
    (req.op \in {"register", "login"} /\ HitsCounted > AuthLimiterMax)
        => /\ resp = TooManyRequests
           /\ users = req.before

\* A login with the wrong password that came sixth in its window: rejected
\* by the limiter, the account's counter untouched.
C26_Witness ==
    /\ req.op = "login" /\ HitsCounted = AuthLimiterMax + 1
    /\ resp.status = 429
    /\ LoginAccount # NoUser
    /\ req.password = "wrong-pass"
    /\ LoginAccountNow.loginAttempts > 0

(* --------------------------- token uniqueness ------------------------- *)
\* The user a successful register, login or refresh answered for, as stored
\* before the request (NoUser for a register).
IssuedTo ==
    IF req.op = "login" THEN LoginAccount
    ELSE IF req.op = "refresh" THEN RefreshAccount
    ELSE NoUser

\* C32: a refresh token issued by register, login or refresh differs from
\* every refresh token issued to the user before, also within one second:
\* no registry holds one token string twice, and a rotated token differs
\* from the token it replaces.
C32_RefreshTokensUnique ==
    /\ \A u \in 1..Len(users) :
          \A i, j \in 1..Len(users[u].refreshTokens) :
              i # j => users[u].refreshTokens[i].token
                          # users[u].refreshTokens[j].token
    /\ (req.op \in {"login", "refresh"} /\ resp.status = 200)
          => /\ resp.cookie # req.token
             /\ \A i \in 1..Len(IssuedTo.refreshTokens) :
                   IssuedTo.refreshTokens[i].token # resp.cookie

(* ---------------------------- counter range --------------------------- *)
\* C33: whatever requests are handled one at a time and however the clock
\* advances, every stored loginAttempts is between 0 and 5, also after a
\* failed login at the instant now = lockUntil.
C33_LoginAttemptsAtMostFive ==
    \A u \in 1..Len(users) : users[u].loginAttempts \in 0..LockThreshold

(* ------------------------------ frame effects ------------------------- *)
\* The login handled last addressed a stored account whose lock had not
\* run out.
LoginWhileLocked ==
    /\ req.op = "login"
    /\ LoginAccount # NoUser
    /\ LoginAccount.lockUntil # NoDate
    /\ LoginAccount.lockUntil > req.at

\* C34: a login on a locked account is rejected as AccountLocked and leaves
\* every stored record as it was: loginAttempts, lockUntil, lastLogin and
\* the registry of the account included, at every such attempt.
C34_LockedLoginChangesNothing ==
    /\ LoginWhileLocked => resp.status = 423
    /\ (req.op = "login" /\ resp.status = 423)
          => users = req.before /\ NoTokensIssued

\* A rejected login on a locked account that holds a token and has logged
\* in before, a second account being stored.
C34_Witness ==
    /\ LoginWhileLocked /\ resp.status = 423
    /\ Len(users) = 2
    /\ LoginAccount.loginAttempts >= LockThreshold
    /\ LoginAccount.lastLogin # NoDate
    /\ LoginAccount.refreshTokens # << >>

Exchangeable(tok) ==
    /\ jwtVerifyRefresh(tok, now)
    /\ findById(tok.id) # NoUser
    /\ tokenExists(findById(tok.id).refreshTokens, tok)

\* C37: a logout that carries a refresh token but no authenticated user id
\* answers 200 and changes no registry, so a token that was registered can
\* still be exchanged by refresh.
C37_LogoutWithoutUserKeepsToken ==
    (req.op = "logout" /\ req.uid = 0)
        => /\ resp.status = 200
           /\ users = req.before
           /\ (RefreshTokenSigned /\ RefreshTokenRegistered)
                 => Exchangeable(req.token)

\* Such a logout with a registered token, which is still exchangeable.
C37_Witness ==
    /\ req.op = "logout" /\ req.uid = 0
    /\ RefreshTokenRegistered
    /\ resp.status = 200
    /\ Exchangeable(req.token)
    /\ Len(users) = 2

(* ---------------------- overlapping registrations --------------------- *)
InitEnrol ==
    /\ config = DefaultConfig
    /\ limiter = EmptyStore
    /\ db = Connected
    /\ users = << >>
    /\ now = 0
    /\ req = [op |-> "none", at |-> 0, before |-> << >>, email |-> "",
              password |-> "", token |-> NoToken, uid |-> 0]
    /\ resp = Response(0, "", NoToken, NoToken)
    /\ issued = {}
    /\ hist = NoHistory
    /\ procs = [p \in Procs |-> Waiting]

\* register up to the end of `await User.findOne({email})`: 409 when a
\* record is found, else the handler goes on to build and save the user.
RegisterBegin(p) ==
    \E f \in FullNames, e \in RegEmails \cup {OtherEmail}, pw \in RegPasswords :
        LET existingUser == findOne(toLowerCase(e))
            begun == [Waiting EXCEPT !.op = "register", !.late = StartsLate(p),
                         !.doc = [id |-> 0, fullName |-> f,
                                  email |-> toLowerCase(e), password |-> pw]]
        IN  /\ procs[p].pc = "idle"
            /\ procs' = [procs EXCEPT ![p] =
                  IF existingUser # NoUser
                  THEN [begun EXCEPT !.pc = "done", !.status = 409]
                  ELSE [begun EXCEPT !.pc = "save"]]
            /\ UNCHANGED <<users, now, req, resp, issued, hist, config, limiter, db>>

\* `await user.save()` and the rest of register. The unique index on email
\* rejects the insert when a record with the e-mail is stored (E11000); the
\* handler's catch answers every error with 500.
RegisterSave(p) ==
    LET d == procs[p].doc
        user == preSave(newUser(d.fullName, d.email, d.password), TRUE)
        token == generateRefreshToken(user, now)
    IN  /\ procs[p].pc = "save"
        /\ IF findOne(d.email) # NoUser
           THEN /\ Finish(p, 500, NoToken)
                /\ UNCHANGED users
           ELSE /\ users' = Append(users,
                      preSave([user EXCEPT !.refreshTokens =
                          addRefreshToken(user.refreshTokens, token, now)],
                          FALSE))
                /\ Finish(p, 201, token)
        /\ UNCHANGED <<now, req, resp, hist, config, limiter, db>>

NextEnrol ==
    \/ \E p \in Procs : RegisterBegin(p)
    \/ \E p \in Procs : RegisterSave(p)
    \/ Tick

SpecEnrol == InitEnrol /\ [][NextEnrol]_vars

\* p and q registered the same e-mail, up to case, and neither began after
\* the other had ended.
ConcurrentRegistrations(p, q) ==
    /\ p # q
    /\ procs[p].pc = "done" /\ procs[q].pc = "done"
    /\ procs[p].op = "register" /\ procs[q].op = "register"
    /\ procs[p].doc.email = procs[q].doc.email
    /\ ~procs[p].late /\ ~procs[q].late

\* No two stored records share an e-mail.
EmailsUnique ==
    \A i, j \in 1..Len(users) : users[i].email = users[j].email => i = j

\* C31: of two concurrent registrations with the same e-mail, up to case,
\* exactly one succeeds and the other is answered 409 Conflict, never an
\* internal error; at most one record holds the e-mail afterwards.
C31_ConcurrentRegistrationOneConflict ==
    /\ EmailsUnique
    /\ \A p, q \in Procs :
          ConcurrentRegistrations(p, q)
             => {procs[p].status, procs[q].status} = {201, 409}

(* ----------------------- connecting to the database ------------------- *)
\* initializeDatabase() or a bare connectDB() at start-up, with or without
\* a usable URI in the environment.
InitConnect ==
    /\ config = DefaultConfig
    /\ limiter = EmptyStore
    /\ \E uri \in BOOLEAN, monitoring \in BOOLEAN :
          db = NotStarted(uri, monitoring)
    /\ users = << >>
    /\ now = 0
    /\ req = [op |-> "none", at |-> 0, before |-> << >>, email |-> "",
              password |-> "", token |-> NoToken, uid |-> 0]
    /\ resp = Response(0, "", NoToken, NoToken)
    /\ issued = {}
    /\ hist = NoHistory
    /\ procs = [p \in Procs |-> Idle]

Running == db.exitCode = NoExit
Serving == <<users, now, req, resp, issued, hist, procs, config, limiter>>

\* connectDB is entered in call c: it returns when connected, fails at once
\* when getMongoUri throws, and else awaits mongoose.connect.
ConnectDB(c) ==
    /\ Running
    /\ db.chains[c] \in {"pending", "delay"}
    /\ db' = IF alreadyConnected(db)
             THEN [db EXCEPT !.chains[c] = "returned"]
             ELSE IF ~db.uri
             THEN connectFailed(db, c)
             ELSE [db EXCEPT !.chains[c] = "connecting",
                             !.readyState = Connecting,
                             !.blind = @ \/ db.readyState = ReadyConnected]
    /\ UNCHANGED Serving

\* mongoose.connect resolves: "connected" is emitted and connectDB returns.
ConnectSucceeds(c) ==
    /\ Running
    /\ db.chains[c] = "connecting"
    /\ db' = onConnected([db EXCEPT !.chains[c] = "returned",
                                    !.readyState = ReadyConnected,
                                    !.hasOpened = TRUE, !.failed = 0])
    /\ UNCHANGED Serving

\* mongoose.connect rejects: the connection goes back to disconnected, with
\* or without a "disconnected" event for the handlers, "error" is emitted,
\* and the catch block of connectDB runs.
ConnectFails(c) ==
    /\ Running
    /\ db.chains[c] = "connecting"
    /\ \E emits \in BOOLEAN :
          LET closed == [db EXCEPT !.readyState =
                            IF @ = Connecting THEN Disconnected ELSE @]
          IN  /\ emits => /\ db.monitoring
                          /\ db.readyState = Connecting
                          /\ HasFreeChain(db)
              /\ db' = connectFailed(
                          onError(IF emits THEN onDisconnected(closed)
                                  ELSE closed), c)
    /\ UNCHANGED Serving

\* The established connection is lost: "disconnected" is emitted.
ConnectionLost ==
    /\ Running
    /\ db.readyState = ReadyConnected
    /\ db.monitoring => HasFreeChain(db)
    /\ db' = onDisconnected([db EXCEPT !.readyState = Disconnected])
    /\ UNCHANGED Serving

\* The driver re-establishes a lost connection by itself: "reconnected" is
\* emitted, with or without "connected".
Reconnected ==
    /\ Running
    /\ db.readyState = Disconnected
    /\ db.hasOpened
    /\ \E connected \in BOOLEAN :
          LET open == [db EXCEPT !.readyState = ReadyConnected, !.failed = 0,
                          !.isConnected = IF db.monitoring THEN TRUE ELSE @]
          IN  db' = IF connected THEN onConnected(open) ELSE open
    /\ UNCHANGED Serving

NextConnect ==
    \/ \E c \in Chains : ConnectDB(c)
    \/ \E c \in Chains : ConnectSucceeds(c)
    \/ \E c \in Chains : ConnectFails(c)
    \/ ConnectionLost
    \/ Reconnected

SpecConnect == InitConnect /\ [][NextConnect]_vars

\* Timers fire and every mongoose.connect settles.
SpecConnectFair ==
    /\ SpecConnect
    /\ \A c \in Chains : WF_vars(ConnectDB(c))
    /\ \A c \in Chains : WF_vars(ConnectSucceeds(c) \/ ConnectFails(c))

\* Every call of connectDB ends: it returns or the process has exited.
ConnectTerminates ==
    \A c \in Chains :
        (db.chains[c] \in {"pending", "connecting", "delay"})
            ~> (db.chains[c] = "returned" \/ ~Running)

\* C38: connectDB makes no attempt while connected, and when the process
\* exits for failed connections it exits with code 1 once the number of
\* failed attempts has reached MAX_RETRY_ATTEMPTS, also when the retries
\* were started by handleReconnection.
C38_ExitAfterMaxFailedAttempts ==
    /\ ~db.blind
    /\ ~Running => /\ db.exitCode = 1
                   /\ db.failed = MAX_RETRY_ATTEMPTS

====
